---- MODULE Spec2Model ----
(***************************************************************************)
(* A model of git-cat (src/gitcat.py): the catalogue store (read_catalogue, *)
(* save_catalogue, list_catalogue, repositories), the Git command wrapper  *)
(* and the per-repository commands of class GitCat.                        *)
(*                                                                         *)
(* Text is modelled as a sequence of one-character strings, so that the    *)
(* string operations of the source (split, strip, in, format padding,      *)
(* re.search) are computed rather than assumed.                            *)
(***************************************************************************)
EXTENDS Integers, Sequences, FiniteSets, TLC

VARIABLES
    gitcatrc,         \* text of the catalogue file (self.gitcatrc on disk)
    readable,         \* whether open(self.gitcatrc) succeeds
    catalogue,        \* self.catalogue: insertion-ordered dict, a sequence of [dire, rep]
    max,              \* self.max
    prefix,           \* self.prefix (options.prefix)
    settings_prefix,  \* settings.prefix of the module-level Settings object
    command,          \* options.command
    has_repositories, \* hasattr(options, 'repositories')
    repositories,     \* options.repositories, the filter pattern
    dry_run,          \* self.dry_run
    git_dry_run,      \* options.git_dry_run
    quiet,            \* self.quiet
    git_local,        \* options.git_local
    pc,               \* position of the process
    idx,              \* position of the for-loop over self.repositories()
    processed,        \* keys whose loop body has run, in order
    cwd,              \* the process working directory
    log,              \* the git invocations issued so far, in order
    out,              \* the lines printed so far, in order
    writes,           \* number of times the catalogue file was written
    stopline,         \* line of the catalogue file at which read_catalogue stopped (0: none)
    probed,           \* the answers of os.path.isdir in is_git_repository, in order
    proc              \* the git process a Git object wraps, and the object's fields

vars == <<gitcatrc, readable, catalogue, max, prefix, settings_prefix, command,
          has_repositories, repositories, dry_run, git_dry_run, quiet, git_local,
          pc, idx, processed, cwd, log, out, writes, stopline, probed, proc>>

-----------------------------------------------------------------------------
(* Bounds of the model *)

\* number of catalogue entries in a run of a per-repository command
MaxRepos == 2
\* number of lines of a catalogue file read at start-up
MaxLines == 2

-----------------------------------------------------------------------------
(* Text *)

NL == "\n"
CR == "\r"
TAB == "\t"
SEP == <<" ", "=", " ">>

\* str.strip() removes leading and trailing whitespace
IsSpace(c) == c \in {" ", NL, CR, TAB}

RECURSIVE LStrip(_)
LStrip(s) == IF s # <<>> /\ IsSpace(Head(s)) THEN LStrip(Tail(s)) ELSE s

RECURSIVE RStrip(_)
RStrip(s) ==
    IF s # <<>> /\ IsSpace(s[Len(s)]) THEN RStrip(SubSeq(s, 1, Len(s) - 1)) ELSE s

Strip(s) == LStrip(RStrip(s))

\* s[i..] begins with sub
StartsAt(s, sub, i) ==
    /\ i + Len(sub) - 1 <= Len(s)
    /\ \A j \in 1..Len(sub) : s[i + j - 1] = sub[j]

StartsWith(s, sub) == StartsAt(s, sub, 1)

\* str.find from position i: the first index >= i at which sub occurs, 0 if none
RECURSIVE Find(_, _, _)
Find(s, sub, i) ==
    IF i + Len(sub) - 1 > Len(s) THEN 0
    ELSE IF StartsAt(s, sub, i) THEN i
    ELSE Find(s, sub, i + 1)

\* `sub in s`
Contains(s, sub) == Find(s, sub, 1) # 0

\* s.split(sep): all the pieces between the non-overlapping occurrences of
\* sep, scanning from the left
RECURSIVE Split(_, _)
Split(s, sep) ==
    LET k == Find(s, sep, 1)
    IN IF k = 0 THEN <<s>>
       ELSE <<SubSeq(s, 1, k - 1)>> \o Split(SubSeq(s, k + Len(sep), Len(s)), sep)

\* iteration over an open text file: the lines, each with its terminating newline
RECURSIVE FileLines(_)
FileLines(text) ==
    LET k == Find(text, <<NL>>, 1)
    IN IF text = <<>> THEN <<>>
       ELSE IF k = 0 THEN <<text>>
       ELSE <<SubSeq(text, 1, k)>> \o FileLines(SubSeq(text, k + 1, Len(text)))

RECURSIVE Spaces(_)
Spaces(n) == IF n <= 0 THEN <<>> ELSE <<" ">> \o Spaces(n - 1)

\* '{s:<{width}}'.format(...): left-justified, padded with spaces, never cut
LJust(s, width) == s \o Spaces(width - Len(s))

RECURSIVE Join(_, _)
Join(strs, sep) ==
    IF strs = <<>> THEN <<>>
    ELSE IF Len(strs) = 1 THEN strs[1]
    ELSE strs[1] \o sep \o Join(Tail(strs), sep)

-----------------------------------------------------------------------------
(* Regular expressions: the fragment of re used for the repository filter. *)
(* A pattern is a sequence of items, each a literal character or the       *)
(* wildcard ".", optionally preceded by the anchor "^".                    *)

ItemMatches(item, c) == IF item = "." THEN c # NL ELSE item = c

\* the items of p match s[i], s[i+1], ...
MatchHere(p, s, i) ==
    /\ i + Len(p) - 1 <= Len(s)
    /\ \A j \in 1..Len(p) : ItemMatches(p[j], s[i + j - 1])

\* re.compile(p).match(s): a match at the beginning of s only
ReMatch(p, s) ==
    IF p # <<>> /\ Head(p) = "^" THEN MatchHere(Tail(p), s, 1) ELSE MatchHere(p, s, 1)

\* re.compile(p).search(s): scan the start positions from the left
RECURSIVE SearchFrom(_, _, _)
SearchFrom(p, s, i) ==
    IF i > Len(s) + 1 THEN FALSE
    ELSE IF MatchHere(p, s, i) THEN TRUE
    ELSE SearchFrom(p, s, i + 1)

ReSearch(p, s) ==
    IF p # <<>> /\ Head(p) = "^" THEN MatchHere(Tail(p), s, 1) ELSE SearchFrom(p, s, 1)

-----------------------------------------------------------------------------
(* Paths *)

\* Settings.__init__: self.prefix = os.environ['HOME']
HOME == <<"/", "h">>
\* another value of the --prefix option
ELSEWHERE == <<"/", "o">>
\* the value of the --catalogue option
GITCATRC == <<"/", "h", "/", "c">>

RECURSIVE LastSlash(_, _)
LastSlash(path, i) ==
    IF i = 0 THEN 0 ELSE IF path[i] = "/" THEN i ELSE LastSlash(path, i - 1)

\* os.path.dirname / os.path.basename
Dirname(path) ==
    LET k == LastSlash(path, Len(path))
    IN IF k = 0 THEN <<>> ELSE IF k = 1 THEN <<"/">> ELSE SubSeq(path, 1, k - 1)
Basename(path) == SubSeq(path, LastSlash(path, Len(path)) + 1, Len(path))

\* GitCat.expand_path (os.path.join of a prefix without trailing slash)
ExpandPath(pre, dire) == IF StartsWith(dire, <<"/">>) THEN dire ELSE pre \o <<"/">> \o dire

\* GitCat.short_path
ShortPath(pre, dire) ==
    IF StartsWith(dire, pre) THEN SubSeq(dire, Len(pre) + 2, Len(dire)) ELSE dire

-----------------------------------------------------------------------------
(* The catalogue: an insertion-ordered dictionary *)

Keys(cat) == [i \in 1..Len(cat) |-> cat[i].dire]

\* `dire in self.catalogue`
NeverInCatalogue(cat, dire) == FALSE
InCatalogue(cat, dire) == \E i \in 1..Len(cat) : cat[i].dire = dire

\* self.catalogue[dire]
Lookup(cat, dire) == cat[CHOOSE i \in 1..Len(cat) : cat[i].dire = dire].rep

\* self.catalogue[dire] = rep: a present key keeps its place and takes the new
\* value, a new key goes last
DictSet(cat, dire, rep) ==
    IF \E i \in 1..Len(cat) : cat[i].dire = dire
    THEN [i \in 1..Len(cat) |-> IF cat[i].dire = dire THEN [dire |-> dire, rep |-> rep]
                                ELSE cat[i]]
    ELSE Append(cat, [dire |-> dire, rep |-> rep])

RECURSIVE Filter(_, _)
Filter(p, keys) ==
    IF keys = <<>> THEN <<>>
    ELSE IF ReSearch(p, Head(keys)) THEN <<Head(keys)>> \o Filter(p, Tail(keys))
    ELSE Filter(p, Tail(keys))

RECURSIVE FilterMatch(_, _)
FilterMatch(p, keys) ==
    IF keys = <<>> THEN <<>>
    ELSE IF ReMatch(p, Head(keys)) THEN <<Head(keys)>> \o FilterMatch(p, Tail(keys))
    ELSE FilterMatch(p, Tail(keys))

\* GitCat.repositories
RepositoriesMatch(cat, has, p) == IF ~has THEN Keys(cat) ELSE FilterMatch(p, Keys(cat))
Repositories(cat, has, p) == IF ~has THEN Keys(cat) ELSE Filter(p, Keys(cat))

RECURSIVE MaxLen(_)
MaxLen(keys) ==
    IF keys = <<>> THEN 0
    ELSE LET m == MaxLen(Tail(keys)) IN IF Len(Head(keys)) > m THEN Len(Head(keys)) ELSE m

\* read_catalogue, the end: self.max, 0 when max() of nothing raises ValueError
KeyWidth(keys) == IF keys = <<>> THEN 0 ELSE MaxLen(keys) + 1

\* read_catalogue: `dire.lower == 'prefix'` compares the bound method
\* str.lower with a string, which is never equal
DireLowerIsPrefix(dire) == FALSE

\* read_catalogue, the loop over the lines of the file from line i on, with
\* the catalogue built so far; status "exit1" is error_message's sys.exit(1),
\* "ValueError" the exception of unpacking a split of other than two pieces
RECURSIVE ReadLines(_, _, _, _)
ReadLines(lines, i, cat, pre) ==
    IF i > Len(lines) THEN [status |-> "ok", catalogue |-> cat, prefix |-> pre, line |-> 0]
    ELSE IF Contains(lines[i], SEP)
    THEN LET parts == Split(lines[i], SEP)
         IN IF Len(parts) # 2
            THEN [status |-> "ValueError", catalogue |-> cat, prefix |-> pre, line |-> i]
            ELSE LET dire == Strip(parts[1])
                 IN IF InCatalogue(cat, dire)
                    THEN [status |-> "exit1", catalogue |-> cat, prefix |-> pre, line |-> i]
                    ELSE IF DireLowerIsPrefix(dire)
                    THEN ReadLines(lines, i + 1, cat, Strip(parts[2]))
                    ELSE ReadLines(lines, i + 1, DictSet(cat, dire, Strip(parts[2])), pre)
    ELSE ReadLines(lines, i + 1, cat, pre)

\* read_catalogue, up to the end of the try statement
LoadCatalogue(canread, text, pre) ==
    IF ~canread THEN [status |-> "exit1", catalogue |-> <<>>, prefix |-> pre, line |-> 0]
    ELSE ReadLines(FileLines(text), 1, <<>>, pre)

\* list_catalogue: one line of the listing
ListLine(dire, rep, sep, width) == LJust(dire, width) \o <<" ", sep, " ">> \o rep

\* list_catalogue(listing=True)
ListCatalogue(cat, keys, width) ==
    Join([i \in 1..Len(keys) |-> ListLine(keys[i], Lookup(cat, keys[i]), "=", width)], <<NL>>)

\* save_catalogue: the header comment
HEADER == <<"#", " ", "L", "i", "s", "t", " ", "o", "f", " ", "g", "i", "t", " ", "r", "e", "p", "o", "s", "i", "t", "o", "r", "i", "e", "s", " ", "t", "o", " ", "s", "y", "n", "c", " ", "u", "s", "i", "n", "g", " ", "g", "i", "t", "c", "a", "t">>

\* Settings.save_settings; self there is the Settings object
SaveSettings(sprefix) ==
    IF sprefix # HOME THEN <<"p", "r", "e", "f", "i", "x", " ", "=", " ">> \o sprefix \o <<NL>>
    ELSE <<>>

\* save_catalogue: the text written to the file
SaveTextPartial(cat, keys, width, sprefix) ==
    HEADER \o <<NL, NL>> \o SaveSettings(sprefix)
    \o ListCatalogue(cat, IF keys = <<>> THEN keys ELSE <<keys[Len(keys)]>>, width) \o <<NL>>
SaveText(cat, keys, width, sprefix) ==
    HEADER \o <<NL, NL>> \o SaveSettings(sprefix) \o ListCatalogue(cat, keys, width) \o <<NL>>

-----------------------------------------------------------------------------
(* Running git: class Git *)

\* str.replace(old, new) for a one-character old
RECURSIVE ReplaceChar(_, _, _)
ReplaceChar(s, old, new) ==
    IF s = <<>> THEN <<>>
    ELSE (IF Head(s) = old THEN new ELSE <<Head(s)>>) \o ReplaceChar(Tail(s), old, new)

\* str.replace(old, '') for a text old
RECURSIVE Remove(_, _)
Remove(s, old) ==
    LET k == Find(s, old, 1)
    IN IF old = <<>> \/ k = 0 THEN s
       ELSE SubSeq(s, 1, k - 1) \o Remove(SubSeq(s, k + Len(old), Len(s)), old)

RECURSIVE IndentLines(_)
IndentLines(lines) ==
    IF lines = <<>> THEN <<>>
    ELSE IF Head(lines) # <<>>
    THEN <<<<" ", " ">> \o Strip(Head(lines))>> \o IndentLines(Tail(lines))
    ELSE IndentLines(Tail(lines))

\* Git.__init__: self.output, from the bytes the command wrote
Normalize(stdout, stderr) ==
    Join(IndentLines(Split(Strip(ReplaceChar(stdout, CR, <<NL>>)), <<NL>>) \o
                     Split(Strip(ReplaceChar(stderr, CR, <<NL>>)), <<NL>>)), <<NL>>)

\* Git.__init__: the record of a finished git process that returned rc and
\* wrote stdout and stderr
Proc(rc, stdout, stderr) ==
    [returncode |-> rc, stdout |-> stdout, stderr |-> stderr,
     output |-> Normalize(stdout, stderr)]

\* self.output
Output(r) == r.output

\* no Git object under construction
NoProc == [state |-> "none", returncode |-> 0, stdout |-> <<>>, stderr |-> <<>>,
           output |-> <<>>]

\* Git.__bool__: self.git_command_ok
Ok(r) == r.returncode = 0

\* the state a handler threads through its statements; raised: an exception
\* is propagating
St == [cwd |-> cwd, log |-> log, out |-> out, raised |-> FALSE, probed |-> probed]

Invocation(st, rep, cmd, options, args, r) ==
    [rep |-> rep, command |-> cmd, options |-> options, args |-> args,
     cwd |-> st.cwd, returncode |-> r.returncode, output |-> Output(r)]

\* Git(rep, command, options): runs the command in the working directory and
\* wraps the outcome; a non-zero exit status raises nothing
GitChecked(st, rep, cmd, options, args, r) ==
    IF st.raised THEN st
    ELSE [st EXCEPT !.log = Append(@, Invocation(st, rep, cmd, options, args, r)),
                    !.raised = r.returncode # 0]
Git(st, rep, cmd, options, args, r) ==
    IF st.raised THEN st
    ELSE [st EXCEPT !.log = Append(@, Invocation(st, rep, cmd, options, args, r))]

\* os.chdir
Chdir(st, dire) == IF st.raised THEN st ELSE [st EXCEPT !.cwd = dire]

Printed(via, rep, message) == [via |-> via, rep |-> rep, message |-> message]

\* GitCat.message
Message(st, message) ==
    IF st.raised \/ quiet THEN st
    ELSE [st EXCEPT !.out = Append(@, Printed("message", <<>>, message))]

\* GitCat.rep_message
RepMessage(st, rep, message, q) ==
    IF st.raised \/ (q /\ quiet) THEN st
    ELSE [st EXCEPT !.out = Append(@, Printed("rep_message", rep, message))]

\* error_message: the print; the caller exits with status 1
ErrorMessage(st, message) ==
    [st EXCEPT !.out = Append(@, Printed("error_message", <<>>, message))]

\* GitCat.process_options: the default options and one flag per git_ option set
ProcessOptions(default) ==
    default \cup (IF git_dry_run THEN {"--dry-run"} ELSE {})
            \cup (IF git_local THEN {"--local"} ELSE {})

TRUE_TEXT == <<"t", "r", "u", "e">>

\* is_git_repository: what it does
IsGitRepositoryUnguarded(st, pre, dire, isdir, r) ==
    Git(Chdir([st EXCEPT !.probed = Append(@, [dire |-> dire, isdir |-> isdir])], dire),
        Remove(dire, pre \o <<"/">>), "rev-parse", {"--is-inside-work-tree"}, <<>>, r)
IsGitRepositoryEffect(st, pre, dire, isdir, r) ==
    LET s0 == [st EXCEPT !.probed = Append(@, [dire |-> dire, isdir |-> isdir])]
    IN  IF isdir
        THEN Git(Chdir(s0, dire), Remove(dire, pre \o <<"/">>), "rev-parse",
                 {"--is-inside-work-tree"}, <<>>, r)
        ELSE s0

\* is_git_repository: what it returns
IsGitRepositoryResult(isdir, r) == isdir /\ r.returncode = 0 /\ Contains(Output(r), TRUE_TEXT)

RevParseResults ==
    { Proc(0, <<"t", "r", "u", "e", "\n">>, <<>>),
      Proc(0, <<"f", "a", "l", "s", "e", "\n">>, <<>>),
      Proc(1, <<>>, <<"f", "a", "t", "a", "l", "\n">>) }

-----------------------------------------------------------------------------
(* Start-up: GitCat.__init__ reads the catalogue, then runs the command *)

LoopCommands == {"install", "fetch", "pull", "push", "commit", "status", "branch", "diff"}

APPEARS_TEXT == <<" ", "a", "p", "p", "e", "a", "r", "s", " ", "i", "n", " ", "t", "h", "e", " ", "c", "a", "t", "a", "l", "o", "g", "u", "e", " ", "m", "o", "r", "e", " ", "t", "h", "a", "n", " ", "o", "n", "c", "e", "!">>
PROBLEM_TEXT == <<"t", "h", "e", "r", "e", " ", "w", "a", "s", " ", "a", " ", "p", "r", "o", "b", "l", "e", "m", " ", "r", "e", "a", "d", "i", "n", "g", " ", "t", "h", "e", " ", "c", "a", "t", "a", "l", "o", "g", "u", "e", " ", "f", "i", "l", "e", " ">>

\* the position after the statements of a loop that has handled its i-th key
AfterKey(st, i, keys) ==
    IF st.raised THEN "Traceback" ELSE IF i >= Len(keys) THEN "done" ELSE "run"

ReadCatalogue ==
    /\ pc = "start"
    /\ LET res == LoadCatalogue(readable, gitcatrc, prefix)
           keys == Repositories(res.catalogue, has_repositories, repositories)
       IN /\ catalogue' = res.catalogue
          /\ prefix' = res.prefix
          /\ stopline' = res.line
          /\ max' = IF res.status = "ok" THEN KeyWidth(keys) ELSE max
          /\ pc' = IF res.status # "ok" THEN res.status
                   ELSE IF command \in LoopCommands THEN AfterKey(St, 0, keys)
                   ELSE "run"
          /\ out' = IF res.status # "exit1" THEN out
                    ELSE IF res.line = 0
                    THEN ErrorMessage(St, PROBLEM_TEXT \o GITCATRC).out
                    ELSE ErrorMessage(St, Strip(Split(FileLines(gitcatrc)[res.line], SEP)[1])
                                          \o APPEARS_TEXT).out
    /\ UNCHANGED <<gitcatrc, readable, settings_prefix, command, has_repositories,
                   repositories, dry_run, git_dry_run, quiet, git_local, idx, processed,
                   cwd, log, writes, probed, proc>>

-----------------------------------------------------------------------------
(* add *)

NOT_GIT_TEXT == <<" ", "n", "o", "t", " ", "a", " ", "g", "i", "t", " ", "r", "e", "p", "o", "s", "i", "t", "o", "r", "y">>
NO_ROOT_TEXT == <<" ", "i", "s", " ", "n", "o", "t", " ", "a", " ", "g", "i", "t", " ", "r", "e", "p", "o", "s", "i", "t", "o", "r", "y", ":", "\n", " ">>
NO_REMOTE_TEXT == <<"U", "n", "a", "b", "l", "e", " ", "t", "o", " ", "f", "i", "n", "d", " ", "r", "e", "m", "o", "t", "e", " ", "r", "e", "p", "o", "s", "i", "t", "o", "r", "y", " ", "f", "o", "r", " ">>
IN_CATALOGUE_TEXT == <<" ", "i", "s", " ", "a", "l", "r", "e", "a", "d", "y", " ", "i", "n", " ", "t", "h", "e", " ", "c", "a", "t", "a", "l", "o", "g", "u", "e">>
THE_GIT_TEXT == <<"t", "h", "e", " ", "g", "i", "t", " ", "r", "e", "p", "o", "s", "i", "t", "o", "r", "y", " ", "i", "n", " ">>
ADDING_TEXT == <<"A", "d", "d", "i", "n", "g", " ">>
TO_CATALOGUE_TEXT == <<" ", "t", "o", " ", "t", "h", "e", " ", "c", "a", "t", "a", "l", "o", "g", "u", "e">>
TO_GITCATRC_TEXT == <<" ", "t", "o", " ", "g", "i", "t", "c", "a", "t", "r", "c">>

\* the directory add resolves from its argument or the working directory
AddDirs == {<<"/", "h", "/", "b">>}

\* outcomes of `git root`
RootResults ==
    { Proc(0, <<"/", "h", "/", "b", "\n">>, <<>>),
      Proc(0, <<"/", "h", "/", "a", "\n">>, <<>>),
      Proc(1, <<>>, <<"f", "a", "t", "a", "l", "\n">>) }

\* outcomes of `git remote get-url --push origin`
RemoteUrlResults ==
    { Proc(0, <<"r", "\n">>, <<>>),
      Proc(0, <<"r", " ", "=", " ", "s", "\n">>, <<>>),
      Proc(1, <<>>, <<"f", "a", "t", "a", "l", "\n">>) }

\* outcomes of the commit of the catalogue file
AddCommitResults == { Proc(0, <<"1", " ", "f", "i", "l", "e", " ", "c", "h", "a", "n", "g", "e", "d", "\n">>, <<>>), Proc(1, <<>>, <<>>) }

\* the directory probed by is_git_repository: absent, or present with the
\* outcome of `git rev-parse --is-inside-work-tree` in it
Probes ==
    {[isdir |-> FALSE, r |-> Proc(1, <<>>, <<>>)]} \cup
    {[isdir |-> TRUE, r |-> r] : r \in RevParseResults}

IsGit(probe) == IsGitRepositoryResult(probe.isdir, probe.r)

\* add ends in error_message: nothing is stored
AddFails(st) ==
    /\ pc' = "exit1"
    /\ cwd' = st.cwd
    /\ log' = st.log
    /\ out' = st.out
    /\ probed' = st.probed
    /\ UNCHANGED <<catalogue, gitcatrc, writes>>

\* add stores the entry, saves the catalogue and goes on to the commit of the
\* catalogue file
AddSaves(st, key, rep) ==
    \E cprobe \in Probes :
    \E commit \in IF IsGit(cprobe) THEN AddCommitResults ELSE {Proc(1, <<>>, <<>>)} :
        LET cat == DictSet(catalogue, key, rep)
            s4 == Message(st, ADDING_TEXT \o key \o TO_CATALOGUE_TEXT)
            s5 == IsGitRepositoryEffect(s4, prefix, Dirname(GITCATRC), cprobe.isdir, cprobe.r)
            s6 == IF IsGit(cprobe)
                  THEN Git(s5, key, "commit", {"--all", "--message"},
                           ADDING_TEXT \o key \o TO_GITCATRC_TEXT, commit)
                  ELSE s5
        IN  /\ catalogue' = cat
            /\ gitcatrc' = SaveText(cat, Repositories(cat, has_repositories, repositories),
                                    max, settings_prefix)
            /\ writes' = writes + 1
            /\ pc' = AfterKey(s6, 1, <<>>)
            /\ cwd' = s6.cwd
            /\ log' = s6.log
            /\ out' = s6.out
            /\ probed' = s6.probed

Add ==
    /\ pc = "run"
    /\ command = "add"
    /\ \E dire \in AddDirs, probe \in Probes :
        LET s1 == IsGitRepositoryEffect(St, prefix, dire, probe.isdir, probe.r)
        IN  IF ~(probe.isdir /\ IsGit(probe))
            THEN AddFails(ErrorMessage(s1, dire \o NOT_GIT_TEXT))
            ELSE \E root \in RootResults :
                LET s2 == Git(Chdir(s1, dire), dire, "root", {}, <<>>, root)
                IN  IF ~Ok(root)
                    THEN AddFails(ErrorMessage(s2, dire \o NO_ROOT_TEXT \o Output(root)))
                    ELSE \E url \in RemoteUrlResults :
                        LET s3 == Git(s2, dire, "remote", {"get-url", "--push", "origin"},
                                      <<>>, url)
                            key == ShortPath(prefix, Strip(Output(root)))
                        IN  IF ~Ok(url)
                            THEN AddFails(ErrorMessage(s3, NO_REMOTE_TEXT \o dire))
                            ELSE IF InCatalogue(catalogue, key)
                            THEN AddFails(ErrorMessage(s3, THE_GIT_TEXT \o key
                                                           \o IN_CATALOGUE_TEXT))
                            ELSE AddSaves(s3, key, Strip(Output(url)))
    /\ UNCHANGED <<readable, max, prefix, settings_prefix, command, has_repositories,
                   repositories, dry_run, git_dry_run, quiet, git_local, idx, processed,
                   stopline, proc>>

-----------------------------------------------------------------------------
(* remove *)

\* remove: the test at line 897 reads `rep`, a name the method never binds
\* (the directory is in `dire`), so it raises NameError before the catalogue
\* is touched and the error leaves the program
GitCatRemove ==
    /\ pc = "run"
    /\ command = "remove"
    /\ pc' = "NameError"
    /\ UNCHANGED <<gitcatrc, readable, catalogue, max, prefix, settings_prefix, command,
                   has_repositories, repositories, dry_run, git_dry_run, quiet, git_local,
                   idx, processed, cwd, log, out, writes, stopline, probed, proc>>

-----------------------------------------------------------------------------
(* ls *)

\* list_catalogue(listing=False): is_git_repository is asked for each key in
\* turn, and a key whose directory is not a working copy is listed with '!'
RECURSIVE Listing(_, _, _, _)
Listing(st, keys, probes, i) ==
    IF i > Len(keys) THEN [st |-> st, lines |-> <<>>]
    ELSE LET s1 == IsGitRepositoryEffect(st, prefix, ExpandPath(prefix, keys[i]),
                                         probes[i].isdir, probes[i].r)
             rest == Listing(s1, keys, probes, i + 1)
         IN  [st |-> rest.st,
              lines |-> <<ListLine(keys[i], Lookup(catalogue, keys[i]),
                                   IF IsGit(probes[i]) THEN "=" ELSE "!", max)>>
                        \o rest.lines]

\* ls: print(self.list_catalogue(listing=False))
Ls ==
    /\ pc = "run"
    /\ command = "ls"
    /\ LET keys == Repositories(catalogue, has_repositories, repositories)
       IN  \E probes \in [1..Len(keys) -> Probes] :
            LET l == Listing(St, keys, probes, 1)
            IN  /\ out' = Append(l.st.out, Printed("print", <<>>, Join(l.lines, <<NL>>)))
                /\ cwd' = l.st.cwd
                /\ log' = l.st.log
                /\ probed' = l.st.probed
                /\ pc' = "done"
    /\ UNCHANGED <<gitcatrc, readable, catalogue, max, prefix, settings_prefix, command,
                   has_repositories, repositories, dry_run, git_dry_run, quiet, git_local,
                   idx, processed, writes, stopline, proc>>

-----------------------------------------------------------------------------
(* The commands that loop over self.repositories() *)

UP_TO_DATE_TEXT == <<"u", "p", " ", "t", "o", " ", "d", "a", "t", "e">>
ALREADY_UP_TO_DATE_TEXT == <<"a", "l", "r", "e", "a", "d", "y", " ", "u", "p", " ", "t", "o", " ", "d", "a", "t", "e">>
NOT_ON_SYSTEM_TEXT == <<"n", "o", "t", " ", "o", "n", " ", "s", "y", "s", "t", "e", "m">>
NOT_INSTALLED_TEXT == <<"r", "e", "p", "o", "s", "i", "t", "o", "r", "y", " ", "n", "o", "t", " ", "i", "n", "s", "t", "a", "l", "l", "e", "d">>
PULLING_TEXT == <<"p", "u", "l", "l", "i", "n", "g", "\n">>
COMPRESSING_TEXT == <<"C", "o", "m", "p", "r", "e", "s", "s", "i", "n", "g">>
COMMIT_TEXT == <<"c", "o", "m", "m", "i", "t", "\n">>
PUSHED_TEXT == <<"p", "u", "s", "h", "e", "d", "\n">>
UPDATING_TEXT == <<"g", "i", "t", " ", "c", "a", "t", ":", " ", "u", "p", "d", "a", "t", "i", "n", "g", " ">>
MARKER_TEXT == <<"[", "u", "p", " ", "t", "o", " ", "d", "a", "t", "e", "]">>
TO_TEXT == <<" ", " ", "T", "o", " ">>
DONE_TEXT == <<"D", "o", "n", "e">>
INSTALLING_TEXT == <<"i", "n", "s", "t", "a", "l", "l", "i", "n", "g">>
INSTALLED_TEXT == <<" ", "-", " ", "d", "o", "n", "e", "!">>
GIT_REPOSITORY_TEXT == <<"g", "i", "t", " ", "r", "e", "p", "o", "s", "i", "t", "o", "r", "y", " ">>
ALREADY_EXISTS_TEXT == <<" ", "a", "l", "r", "e", "a", "d", "y", " ", "e", "x", "i", "s", "t", "s">>
NOT_A_REPOSITORY_TEXT == <<"n", "o", "t", " ", "a", " ", "g", "i", "t", " ", "r", "e", "p", "o", "s", "i", "t", "o", "r", "y", "!", "?">>

\* str.endswith
EndsWith(s, sub) == Len(sub) <= Len(s) /\ SubSeq(s, Len(s) - Len(sub) + 1, Len(s)) = sub

\* the keys of the loop and the key the loop is at
LoopKeys == Repositories(catalogue, has_repositories, repositories)
Rep == LoopKeys[idx + 1]

\* the loop has run its body for the key it was at and goes to the next one
NextKey(st) ==
    /\ idx' = idx + 1
    /\ processed' = Append(processed, Rep)
    /\ pc' = AfterKey(st, idx + 1, LoopKeys)
    /\ cwd' = st.cwd
    /\ log' = st.log
    /\ out' = st.out
    /\ probed' = st.probed

InLoop(cmd) == pc = "run" /\ command = cmd /\ idx < Len(LoopKeys)

LoopFrame ==
    UNCHANGED <<gitcatrc, readable, catalogue, max, prefix, settings_prefix, command,
                has_repositories, repositories, dry_run, git_dry_run, quiet, git_local,
                writes, stopline, proc>>

FetchResults ==
    { Proc(0, <<>>, <<>>), Proc(0, <<>>, <<"F", "r", "o", "m", " ", "x", "\n">>), Proc(1, <<>>, <<"f", "a", "t", "a", "l", "\n">>) }

Fetch ==
    /\ InLoop("fetch")
    /\ \E probe \in Probes :
        LET s1 == IsGitRepositoryEffect(St, prefix, ExpandPath(prefix, Rep), probe.isdir,
                                        probe.r)
        IN  IF IsGit(probe)
            THEN \E pull \in FetchResults :
                LET s2 == Git(s1, Rep, "fetch", ProcessOptions({"-q", "--progress"}), <<>>,
                              pull)
                IN  IF Ok(pull)
                    THEN IF Output(pull) = <<>>
                         THEN NextKey(RepMessage(s2, Rep, ALREADY_UP_TO_DATE_TEXT, TRUE))
                         ELSE NextKey(RepMessage(s2, Rep, Output(pull), TRUE))
                    ELSE NextKey(s2)
            ELSE NextKey(RepMessage(s1, Rep, NOT_ON_SYSTEM_TEXT, TRUE))
    /\ LoopFrame

PullResults ==
    { Proc(0, <<>>, <<>>), Proc(0, <<"C", "o", "m", "p", "r", "e", "s", "s", "i", "n", "g", "\n", "U", "p", "d", "a", "t", "i", "n", "g", "\n">>, <<>>),
      Proc(1, <<>>, <<"f", "a", "t", "a", "l", "\n">>) }

RECURSIVE WithoutCompressing(_)
WithoutCompressing(lines) ==
    IF lines = <<>> THEN <<>>
    ELSE IF Contains(Head(lines), COMPRESSING_TEXT) THEN WithoutCompressing(Tail(lines))
    ELSE <<Head(lines)>> \o WithoutCompressing(Tail(lines))

Pull ==
    /\ InLoop("pull")
    /\ \E probe \in Probes :
        LET s1 == IsGitRepositoryEffect(St, prefix, ExpandPath(prefix, Rep), probe.isdir,
                                        probe.r)
        IN  IF IsGit(probe)
            THEN \E pull \in PullResults :
                LET s2 == Git(s1, Rep, "pull", ProcessOptions({"-q", "--progress"}), <<>>,
                              pull)
                IN  IF Ok(pull)
                    THEN IF Output(pull) = <<>>
                         THEN NextKey(RepMessage(s2, Rep, ALREADY_UP_TO_DATE_TEXT, TRUE))
                         ELSE NextKey(RepMessage(s2, Rep,
                                  PULLING_TEXT \o Join(WithoutCompressing(
                                      Split(Output(pull), <<NL>>)), <<NL>>), FALSE))
                    ELSE NextKey(s2)
            ELSE NextKey(RepMessage(s1, Rep, NOT_INSTALLED_TEXT, TRUE))
    /\ LoopFrame

BranchResults ==
    { Proc(0, <<"*", " ", "m", " ", "1", " ", "x", "\n">>, <<>>), Proc(0, <<"*", " ", "m", " ", "1", " ", "x", "\n", "n", " ", "2", " ", "y", "\n">>, <<>>),
      Proc(1, <<>>, <<"f", "a", "t", "a", "l", "\n">>) }

Branch ==
    /\ InLoop("branch")
    /\ \E probe \in Probes :
        LET s1 == IsGitRepositoryEffect(St, prefix, ExpandPath(prefix, Rep), probe.isdir,
                                        probe.r)
        IN  IF IsGit(probe)
            THEN \E pull \in BranchResults :
                LET s2 == Git(s1, Rep, "branch", ProcessOptions({"--verbose"}), <<>>, pull)
                    output == Output(pull)
                IN  IF Ok(pull)
                    THEN IF ~Contains(output, <<NL>>)
                         THEN NextKey(RepMessage(s2, Rep, ALREADY_UP_TO_DATE_TEXT, TRUE))
                         ELSE NextKey(RepMessage(s2, Rep,
                                  SubSeq(output, Find(output, <<NL>>, 1), Len(output)), TRUE))
                    ELSE NextKey(s2)
            ELSE NextKey(RepMessage(s1, Rep, NOT_ON_SYSTEM_TEXT, TRUE))
    /\ LoopFrame

DiffResults ==
    { Proc(0, <<>>, <<>>), Proc(0, <<"+", "x", "\n">>, <<>>),
      Proc(1, <<>>, <<"n", "o", "t", " ", "a", " ", "g", "i", "t", " ", "c", "o", "m", "m", "a", "n", "d", "\n">>) }

\* diff: the command is the literal 'diff' 'options', and the options are the
\* default ''
Diff ==
    /\ InLoop("diff")
    /\ \E probe \in Probes :
        LET s1 == IsGitRepositoryEffect(St, prefix, ExpandPath(prefix, Rep), probe.isdir,
                                        probe.r)
        IN  IF IsGit(probe)
            THEN \E diff \in DiffResults :
                LET s2 == Git(s1, Rep, "diffoptions", {}, <<>>, diff)
                IN  IF Ok(diff)
                    THEN IF Output(diff) # <<>>
                         THEN NextKey(RepMessage(s2, Rep, Output(diff), FALSE))
                         ELSE NextKey(RepMessage(s2, Rep, UP_TO_DATE_TEXT, TRUE))
                    ELSE NextKey(s2)
            ELSE NextKey(s1)
    /\ LoopFrame

DiffIndexResults ==
    { Proc(0, <<>>, <<>>), Proc(0, <<"f", "\n">>, <<>>), Proc(1, <<>>, <<"f", "a", "t", "a", "l", "\n">>) }

CommitResults ==
    { Proc(0, <<"1", " ", "f", "i", "l", "e", " ", "c", "h", "a", "n", "g", "e", "d", "\n">>, <<>>), Proc(0, <<>>, <<>>),
      Proc(1, <<"n", "o", "t", "h", "i", "n", "g", " ", "t", "o", " ", "c", "o", "m", "m", "i", "t", "\n">>, <<>>) }

\* commit_repository: whether there is something to commit
HasChangesUnchecked(changed_files) == Ok(changed_files)
HasChanges(changed_files) == Ok(changed_files) /\ Output(changed_files) # <<>>

\* commit_repository: the options of the commit
CommitOptionsReal(dry) == {"--all", "--message"}
CommitOptions(dry) == {"--all", "--message"} \cup (IF dry THEN {"--porcelain"} ELSE {})

\* commit_repository: the state after it and the Git record it returns, for
\* the outcomes of the diff-index and of the commit (read only if it is run)
CommitRepository(st, rep, changed_files, commit) ==
    LET s1 == Git(st, rep, "diff-index", {"--name-only", "HEAD"}, <<>>, changed_files)
    IN  IF HasChanges(changed_files)
        THEN [st |-> Git(s1, rep, "commit", CommitOptions(dry_run),
                         UPDATING_TEXT \o Output(changed_files), commit),
              result |-> commit]
        ELSE [st |-> s1, result |-> changed_files]

\* the outcomes of a commit that commit_repository comes to run
CommitsFor(changed_files) ==
    IF HasChanges(changed_files) THEN CommitResults ELSE {Proc(0, <<>>, <<>>)}

Commit ==
    /\ InLoop("commit")
    /\ \E probe \in Probes :
        LET s1 == IsGitRepositoryEffect(St, prefix, ExpandPath(prefix, Rep), probe.isdir,
                                        probe.r)
        IN  IF IsGit(probe)
            THEN \E changed_files \in DiffIndexResults :
                 \E commit \in CommitsFor(changed_files) :
                    NextKey(CommitRepository(s1, Rep, changed_files, commit).st)
            ELSE NextKey(s1)
    /\ LoopFrame

PushDryRunResults ==
    { Proc(0, <<"T", "o", " ", "x", "\n", "=", "\t", "m", ":", "m", "\t", "[", "u", "p", " ", "t", "o", " ", "d", "a", "t", "e", "]", "\n", "D", "o", "n", "e", "\n">>, <<>>),
      Proc(0, <<"T", "o", " ", "x", "\n", "*", "\t", "m", ":", "m", "\n", "D", "o", "n", "e", "\n">>, <<>>),
      Proc(1, <<>>, <<"f", "a", "t", "a", "l", "\n">>) }

PushResults ==
    { Proc(0, <<"T", "o", " ", "x", "\n", "*", "\t", "m", ":", "m", "\n", "D", "o", "n", "e", "\n">>, <<>>),
      Proc(0, <<"E", "v", "e", "r", "y", "t", "h", "i", "n", "g", "\n">>, <<>>),
      Proc(1, <<>>, <<"r", "e", "j", "e", "c", "t", "e", "d", "\n">>) }

\* push: the dry run went through and leaves something to push
WouldPushUnchecked(push) == ~Contains(Output(push), MARKER_TEXT)
WouldPush(push) == Ok(push) /\ ~Contains(Output(push), MARKER_TEXT)

\* push: the report of a real push that succeeded
PushReport(st, rep, commit, push) ==
    LET output == Output(push)
        nocommit == Output(commit) = <<>> /\ ~Contains(Output(commit), UP_TO_DATE_TEXT)
    IN  IF StartsWith(output, TO_TEXT) /\ EndsWith(output, DONE_TEXT)
        THEN IF nocommit THEN RepMessage(st, rep, PUSHED_TEXT \o output, TRUE)
             ELSE Message(st, Split(output, <<NL>>)[1])
        ELSE IF nocommit THEN RepMessage(st, rep, PUSHED_TEXT \o output, TRUE)
             ELSE Message(st, output)

Push ==
    /\ InLoop("push")
    /\ \E probe \in Probes :
        LET s1 == IsGitRepositoryEffect(St, prefix, ExpandPath(prefix, Rep), probe.isdir,
                                        probe.r)
            options == ProcessOptions({"--porcelain", "--follow-tags"})
        IN  IF IsGit(probe)
            THEN \E changed_files \in DiffIndexResults :
                 \E done \in CommitsFor(changed_files) :
                    LET c == CommitRepository(s1, Rep, changed_files, done)
                        commit == c.result
                        s2 == IF Output(commit) # <<>>
                              THEN RepMessage(c.st, Rep, COMMIT_TEXT \o Output(commit), TRUE)
                              ELSE c.st
                    IN  IF Ok(commit)
                        THEN \E dry \in PushDryRunResults :
                            LET s3 == Git(s2, Rep, "push", options \cup {"--dry-run"}, <<>>,
                                          dry)
                            IN  IF Ok(dry) /\ Contains(Output(dry), MARKER_TEXT)
                                THEN NextKey(RepMessage(s3, Rep, UP_TO_DATE_TEXT, TRUE))
                                ELSE IF WouldPush(dry) /\ ~dry_run
                                THEN \E push \in PushResults :
                                    LET s4 == Git(s3, Rep, "push", options, <<>>, push)
                                    IN  IF Ok(push)
                                        THEN NextKey(PushReport(s4, Rep, commit, push))
                                        ELSE NextKey(s4)
                                ELSE NextKey(s3)
                        ELSE NextKey(c.st)
            ELSE NextKey(RepMessage(s1, Rep, NOT_ON_SYSTEM_TEXT, TRUE))
    /\ LoopFrame

-----------------------------------------------------------------------------
(* status *)

IsDigit(c) == c \in {"0", "1", "2", "3", "4", "5", "6", "7", "8", "9"}

\* the index after the digits that begin at i
RECURSIVE DigitsEnd(_, _)
DigitsEnd(s, i) == IF i <= Len(s) /\ IsDigit(s[i]) THEN DigitsEnd(s, i + 1) ELSE i

AHEAD_TEXT == <<"a", "h", "e", "a", "d">>
BEHIND_TEXT == <<"b", "e", "h", "i", "n", "d">>
FILE_TEXT == <<" ", "f", "i", "l", "e">>
CHANGED_TEXT == <<" ", "c", "h", "a", "n", "g", "e", "d">>
UNCOMMITTED_TEXT == <<"u", "n", "c", "o", "m", "m", "i", "t", "t", "e", "d", " ", "c", "h", "a", "n", "g", "e", "s", " ", "i", "n", " ">>
HEADER_MARK_TEXT == <<" ", " ", "#", "#">>

\* ahead_behind, one repetition `(ahead|behind) [0-9]+(, )?` at i: the index
\* after it, 0 if there is none
ClauseEnd(s, i) ==
    LET w == IF StartsAt(s, AHEAD_TEXT, i) THEN i + Len(AHEAD_TEXT)
             ELSE IF StartsAt(s, BEHIND_TEXT, i) THEN i + Len(BEHIND_TEXT)
             ELSE 0
        d == IF w # 0 /\ StartsAt(s, <<" ">>, w) THEN DigitsEnd(s, w + 1) ELSE 0
    IN  IF w = 0 \/ d = 0 \/ d = w + 1 THEN 0
        ELSE IF StartsAt(s, <<",", " ">>, d) THEN d + 2
        ELSE d

\* ahead_behind, after a repetition that ends before i: the index of the
\* closing bracket, 0 if there is none
RECURSIVE ClausesEnd(_, _)
ClausesEnd(s, i) ==
    IF StartsAt(s, <<"]">>, i) THEN i
    ELSE IF ClauseEnd(s, i) = 0 THEN 0
    ELSE ClausesEnd(s, ClauseEnd(s, i))

\* ahead_behind.search(s) from i on: the match without its brackets, '' if none
RECURSIVE AheadBehind(_, _)
AheadBehind(s, i) ==
    IF i > Len(s) THEN <<>>
    ELSE IF s[i] = "[" /\ ClauseEnd(s, i + 1) # 0 /\ ClausesEnd(s, ClauseEnd(s, i + 1)) # 0
    THEN SubSeq(s, i + 1, ClausesEnd(s, ClauseEnd(s, i + 1)) - 1)
    ELSE AheadBehind(s, i + 1)

\* files_changed.search(s) from i on: the first group, '' if none
RECURSIVE FilesChanged(_, _)
FilesChanged(s, i) ==
    LET f == DigitsEnd(s, i) + Len(FILE_TEXT)
    IN  IF i > Len(s) THEN <<>>
        ELSE IF IsDigit(s[i]) /\ StartsAt(s, FILE_TEXT, DigitsEnd(s, i))
                /\ StartsAt(s, <<"s">> \o CHANGED_TEXT, f)
        THEN SubSeq(s, i, f)
        ELSE IF IsDigit(s[i]) /\ StartsAt(s, FILE_TEXT, DigitsEnd(s, i))
                /\ StartsAt(s, CHANGED_TEXT, f)
        THEN SubSeq(s, i, f - 1)
        ELSE FilesChanged(s, i + 1)

\* status: status.output without its first line
Residual(output) ==
    IF Contains(output, <<NL>>) THEN SubSeq(output, Find(output, <<NL>>, 1) + 1, Len(output))
    ELSE IF StartsWith(output, HEADER_MARK_TEXT) THEN <<>>
    ELSE output

\* status: the summary of the changes
Summary(status, diff) ==
    LET changes == AheadBehind(Output(status), 1)
        found == IF Ok(diff) THEN FilesChanged(Output(diff), 1) ELSE <<>>
        changed == IF found = <<>> THEN <<>> ELSE UNCOMMITTED_TEXT \o found
    IN  IF changes = <<>> THEN changed
        ELSE IF changed = <<>> THEN changes
        ELSE changed \o <<",", " ">> \o changes

\* status: the line reported for a repository
StatusReportOfSummary(st, rep, status, diff) ==
    IF Summary(status, diff) # <<>>
    THEN RepMessage(st, rep, Summary(status, diff), FALSE)
    ELSE RepMessage(st, rep, UP_TO_DATE_TEXT, TRUE)
StatusReport(st, rep, status, diff) ==
    IF Residual(Output(status)) # <<>>
    THEN RepMessage(st, rep, Summary(status, diff) \o <<NL>> \o Residual(Output(status)),
                    FALSE)
    ELSE IF Summary(status, diff) # <<>>
    THEN RepMessage(st, rep, Summary(status, diff), FALSE)
    ELSE RepMessage(st, rep, UP_TO_DATE_TEXT, TRUE)

RemoteUpdateResults == { Proc(0, <<>>, <<>>), Proc(1, <<>>, <<"f", "a", "t", "a", "l", "\n">>) }

StatusResults ==
    { Proc(0, <<"#", "#", " ", "m", ".", ".", ".", "o", "/", "m", "\n">>, <<>>),
      Proc(0, <<"#", "#", " ", "m", ".", ".", ".", "o", "/", "m", " ", "[", "a", "h", "e", "a", "d", " ", "1", ",", " ", "b", "e", "h", "i", "n", "d", " ", "2", "]", "\n">>, <<>>),
      Proc(0, <<"#", "#", " ", "m", ".", ".", ".", "o", "/", "m", "\n", " ", "M", " ", "f", "\n">>, <<>>),
      Proc(1, <<>>, <<"f", "a", "t", "a", "l", "\n">>) }

DiffStatResults ==
    { Proc(0, <<>>, <<>>), Proc(0, <<" ", "1", " ", "f", "i", "l", "e", " ", "c", "h", "a", "n", "g", "e", "d", ",", " ", "2", " ", "i", "n", "s", "e", "r", "t", "i", "o", "n", "s", "(", "+", ")", "\n">>, <<>>),
      Proc(1, <<>>, <<"f", "a", "t", "a", "l", "\n">>) }

\* status: `remote = self.options.git_local or Git(rep, 'remote', 'update')`
\* is true
RemoteUnchecked(remote) == TRUE
Remote(remote) == git_local \/ Ok(remote)

Status ==
    /\ InLoop("status")
    /\ \E probe \in Probes :
        LET s1 == IsGitRepositoryEffect(St, prefix, ExpandPath(prefix, Rep), probe.isdir,
                                        probe.r)
        IN  IF IsGit(probe)
            THEN \E remote \in IF git_local THEN {Proc(0, <<>>, <<>>)}
                               ELSE RemoteUpdateResults :
                LET s2 == IF git_local THEN s1
                          ELSE Git(s1, Rep, "remote", {"update"}, <<>>, remote)
                IN  IF Remote(remote)
                    THEN \E status \in StatusResults :
                        LET s3 == Git(s2, Rep, "status",
                                      ProcessOptions({"--porcelain", "--short", "--branch"}),
                                      <<>>, status)
                        IN  IF Ok(status)
                            THEN \E diff \in DiffStatResults :
                                NextKey(StatusReport(
                                    Git(s3, Rep, "diff", {"--shortstat", "--no-color"},
                                        <<>>, diff),
                                    Rep, status, diff))
                            ELSE NextKey(s3)
                    ELSE NextKey(s2)
            ELSE NextKey(RepMessage(s1, Rep, NOT_ON_SYSTEM_TEXT, TRUE))
    /\ LoopFrame

-----------------------------------------------------------------------------
(* install *)

\* what is at the path of a repository: nothing, a file, a directory without
\* .git, a directory with .git
PathKinds == {"absent", "file", "dir", "dotgit"}

CloneResults == { Proc(0, <<>>, <<>>), Proc(1, <<>>, <<"f", "a", "t", "a", "l", "\n">>) }

\* outcomes of the init, remote add, fetch and checkout of install
SetupResults ==
    LET ok == Proc(0, <<>>, <<>>)
        no == Proc(1, <<>>, <<"f", "a", "t", "a", "l", "\n">>)
    IN  { <<ok, ok, ok, ok>>, <<ok, ok, no, no>>, <<ok, no, ok, ok>>, <<no, no, no, no>> }

\* install, the end: the check of what is at the path now
InstallCheck(st, rep, dire, probe) ==
    IF dry_run THEN st
    ELSE IF IsGit(probe) THEN IsGitRepositoryEffect(st, prefix, dire, probe.isdir, probe.r)
    ELSE RepMessage(IsGitRepositoryEffect(st, prefix, dire, probe.isdir, probe.r), rep,
                    NOT_A_REPOSITORY_TEXT, FALSE)

\* the probes of the path after the body of install, by what was there before
ChecksFor(kind) ==
    IF dry_run THEN {CHOOSE probe \in Probes : ~probe.isdir}
    ELSE IF kind = "absent" THEN Probes
    ELSE IF kind = "file" THEN {probe \in Probes : ~probe.isdir}
    ELSE {probe \in Probes : probe.isdir}

\* install: whether the clone is run
Clones(dry) == ~dry

Install ==
    /\ InLoop("install")
    /\ \E kind \in PathKinds :
       \E check \in ChecksFor(kind) :
        LET dire == ExpandPath(prefix, Rep)
        IN  IF kind = "dotgit"
            THEN NextKey(InstallCheck(
                     RepMessage(St, GIT_REPOSITORY_TEXT \o dire \o ALREADY_EXISTS_TEXT, <<>>,
                                TRUE),
                     Rep, dire, check))
            ELSE IF kind \in {"file", "dir"}
            THEN \E setup \in SetupResults :
                NextKey(InstallCheck(
                    Git(Git(Git(Git(St, Rep, "init", {}, <<>>, setup[1]),
                                Rep, "remote add origin", {}, Lookup(catalogue, Rep), setup[2]),
                            Rep, "fetch origin", {}, <<>>, setup[3]),
                        Rep, "checkout -b master --track origin/master", {}, <<>>, setup[4]),
                    Rep, dire, check))
            ELSE LET s1 == Chdir(RepMessage(St, Rep, INSTALLING_TEXT, TRUE), Dirname(dire))
                 IN  IF Clones(dry_run)
                     THEN \E install \in CloneResults :
                         LET s2 == Git(s1, Rep, "clone", {"--quiet"},
                                       Lookup(catalogue, Rep) \o <<" ">> \o Basename(dire),
                                       install)
                         IN  NextKey(InstallCheck(
                                 IF Ok(install) THEN Message(s2, INSTALLED_TEXT) ELSE s2,
                                 Rep, dire, check))
                     ELSE NextKey(InstallCheck(s1, Rep, dire, check))
    /\ LoopFrame

-----------------------------------------------------------------------------
(* A run of one of the commands over a catalogue that git cat saved *)

BaseKeys == <<<<"a", "b">>, <<"b">>, <<"b", "a">>>>

RemoteOf(dire) == <<"g", ":">> \o dire

BaseCatalogue(n) == [i \in 1..n |-> [dire |-> BaseKeys[i], rep |-> RemoteOf(BaseKeys[i])]]

\* the values of the filter argument
Patterns == {<<>>, <<"b">>, <<"^", "b">>, <<"a", ".">>}

\* the commands with a dry-run option
DryRunCommands == {"install", "pull", "push", "commit"}

\* GitCat.__init__: self.dry_run from options.dry_run and options.git_dry_run
Merged(opt, git_opt) == opt \/ git_opt

Init ==
    /\ \E n \in 0..MaxRepos :
        gitcatrc = SaveText(BaseCatalogue(n), Keys(BaseCatalogue(n)),
                            KeyWidth(Keys(BaseCatalogue(n))), HOME)
    /\ readable = TRUE
    /\ catalogue = <<>>
    /\ max = 0
    /\ prefix = HOME
    /\ settings_prefix = HOME
    /\ command \in LoopCommands
    /\ has_repositories \in BOOLEAN
    /\ repositories \in IF has_repositories THEN Patterns ELSE {<<>>}
    /\ git_dry_run \in IF command \in DryRunCommands THEN BOOLEAN ELSE {FALSE}
    /\ \E opt \in IF command \in DryRunCommands THEN BOOLEAN ELSE {FALSE} :
        dry_run = Merged(opt, git_dry_run)
    /\ quiet \in BOOLEAN
    /\ git_local \in IF command = "status" THEN BOOLEAN ELSE {FALSE}
    /\ pc = "start"
    /\ idx = 0
    /\ processed = <<>>
    /\ cwd = HOME
    /\ log = <<>>
    /\ out = <<>>
    /\ writes = 0
    /\ stopline = 0
    /\ probed = <<>>
    /\ proc = NoProc

Next ==
    \/ ReadCatalogue
    \/ Install
    \/ Fetch
    \/ Pull
    \/ Push
    \/ Commit
    \/ Status
    \/ Branch
    \/ Diff

Spec == Init /\ [][Next]_vars

\* The interpreter runs the program: a started process comes to the end of
\* GitCat.__init__'s read_catalogue, and a loop that has a key left comes to
\* the end of its body for that key (every git process returns), wherever
\* that step leaves the program.
Advance ==
    /\ pc \in {"start", "run"}
    /\ \E p \in {"start", "run", "done", "exit1", "Traceback", "ValueError"},
          i \in {idx, idx + 1} :
          /\ p # pc \/ i # idx
          /\ pc' = p
          /\ idx' = i

FairSpec == Spec /\ WF_<<pc, idx>>(Advance)

-----------------------------------------------------------------------------
(* The catalogue store: catalogue files as a user may have written them, *)
(* read at start-up and rewritten by add                                   *)

Concat(strs) == Join(strs, <<>>)

\* lines of a catalogue file: two entries, an entry that repeats a key with
\* another remote, a padded entry, a line with two separators, comment lines
\* with and without a separator, a line without a separator and an empty line
CatalogueLines ==
    {line \o <<NL>> : line \in
        {<<"a", " ", "=", " ", "r">>,
         <<"b", " ", "=", " ", "s">>,
         <<"a", " ", "=", " ", "s">>,
         <<" ", "b", " ", " ", "=", " ", " ", "s", " ">>,
         <<"a", " ", "=", " ", "r", " ", "=", " ", "s">>,
         <<"#", " ", "a", " ", "=", " ", "r">>,
         <<"#", " ", "c">>,
         <<"c">>,
         <<>>}}

CatalogueFiles ==
    {Concat(ls) : ls \in UNION {[1..n -> CatalogueLines] : n \in 0..MaxLines}}

InitCat ==
    /\ gitcatrc \in CatalogueFiles
    /\ readable \in BOOLEAN
    /\ catalogue = <<>>
    /\ max = 0
    /\ prefix \in {HOME, ELSEWHERE}
    /\ settings_prefix = HOME
    /\ command \in {"add", "remove", "ls"}
    /\ has_repositories = FALSE
    /\ repositories = <<>>
    /\ dry_run = FALSE
    /\ git_dry_run = FALSE
    /\ quiet = FALSE
    /\ git_local = FALSE
    /\ pc = "start"
    /\ idx = 0
    /\ processed = <<>>
    /\ cwd = HOME
    /\ log = <<>>
    /\ out = <<>>
    /\ writes = 0
    /\ stopline = 0
    /\ probed = <<>>
    /\ proc = NoProc

NextCat ==
    \/ ReadCatalogue
    \/ Add
    \/ GitCatRemove
    \/ Ls

SpecCat == InitCat /\ [][NextCat]_vars

-----------------------------------------------------------------------------
(* The executor: one Git object built from what a git process wrote *)

MaxOut == 5
MaxErr == 1

TextsUpTo(chars, n) == UNION {[1..k -> chars] : k \in 0..n}

\* what a git process may leave: a return code, and bytes on stdout and stderr
InitGit ==
    /\ proc \in {[state |-> "running", returncode |-> rc, stdout |-> o, stderr |-> e,
                  output |-> <<>>] :
                    rc \in {0, 1}, o \in TextsUpTo({"a", " ", NL}, MaxOut),
                    e \in TextsUpTo({"a", " ", NL, CR}, MaxErr)}
    /\ gitcatrc = <<>>
    /\ readable = TRUE
    /\ catalogue = <<>>
    /\ max = 0
    /\ prefix = HOME
    /\ settings_prefix = HOME
    /\ command = "git"
    /\ has_repositories = FALSE
    /\ repositories = <<>>
    /\ dry_run = FALSE
    /\ git_dry_run = FALSE
    /\ quiet = FALSE
    /\ git_local = FALSE
    /\ pc = "git"
    /\ idx = 0
    /\ processed = <<>>
    /\ cwd = HOME
    /\ log = <<>>
    /\ out = <<>>
    /\ writes = 0
    /\ stopline = 0
    /\ probed = <<>>

\* Git.__init__ after subprocess.run returned: the fields of the object
GitInit ==
    /\ proc.state = "running"
    /\ LET r == Proc(proc.returncode, proc.stdout, proc.stderr)
       IN  proc' = [state |-> "done", returncode |-> r.returncode, stdout |-> r.stdout,
                    stderr |-> r.stderr, output |-> Output(r)]
    /\ UNCHANGED <<gitcatrc, readable, catalogue, max, prefix, settings_prefix, command,
                   has_repositories, repositories, dry_run, git_dry_run, quiet, git_local,
                   pc, idx, processed, cwd, log, out, writes, stopline, probed>>

SpecGit == InitGit /\ [][GitInit]_vars

\* one run of any command: the loop commands over a saved catalogue, add and
\* remove over the catalogue files
InitAll == Init \/ InitCat

NextAll ==
    \/ ReadCatalogue
    \/ Install
    \/ Fetch
    \/ Pull
    \/ Push
    \/ Commit
    \/ Status
    \/ Branch
    \/ Diff
    \/ Add
    \/ GitCatRemove
    \/ Ls

SpecAll == InitAll /\ [][NextAll]_vars

-----------------------------------------------------------------------------
(* Properties *)

Range(seq) == {seq[i] : i \in 1..Len(seq)}

RealClone(e) == e.command = "clone"
RealCommit(e) == e.command = "commit" /\ "--porcelain" \notin e.options
RealPush(e) == e.command = "push" /\ "--dry-run" \notin e.options
DryRunPush(e) == e.command = "push" /\ "--dry-run" \in e.options

\* C1: in install, commit and push under the global dry-run flag, no clone, no
\* commit without --porcelain and no push without --dry-run is ever issued,
\* whatever the outcomes of the probes and of the other invocations.
C1_DryRunDoesNoHarm ==
    (dry_run /\ command \in {"install", "commit", "push"}) =>
        \A e \in Range(log) : ~RealClone(e) /\ ~RealCommit(e) /\ ~RealPush(e)

\* C1, its case: a dry-run push of a repository with changes to commit and
\* commits to push, whose commit and push went out as no-ops only.
C1_Witness ==
    /\ dry_run /\ ~git_dry_run /\ command = "push" /\ pc = "done"
    /\ \E i \in 1..Len(log) :
        /\ log[i].command = "commit" /\ "--porcelain" \in log[i].options
        /\ log[i].returncode = 0
        /\ i < Len(log) /\ DryRunPush(log[i + 1]) /\ log[i + 1].returncode = 0
        /\ ~Contains(log[i + 1].output, MARKER_TEXT)

\* C2: a push without --dry-run for a key comes right after a push with
\* --dry-run for that key which succeeded and did not report [up to date];
\* after a dry run that failed or reported [up to date] there is no real push
\* for the key.
C2_PushAfterDryRun ==
    /\ \A i \in 1..Len(log) :
        RealPush(log[i]) =>
            /\ i > 1
            /\ DryRunPush(log[i - 1])
            /\ log[i - 1].rep = log[i].rep
            /\ log[i - 1].returncode = 0
            /\ ~Contains(log[i - 1].output, MARKER_TEXT)
    /\ \A i \in 1..Len(log) :
        (DryRunPush(log[i])
         /\ (log[i].returncode # 0 \/ Contains(log[i].output, MARKER_TEXT))) =>
            \A j \in 1..Len(log) : ~(RealPush(log[j]) /\ log[j].rep = log[i].rep)

\* C2, its case: a run with a real push for one key and, for another key, a
\* dry run that failed.
C2_Witness ==
    /\ \E i \in 1..Len(log) : RealPush(log[i])
    /\ \E i \in 1..Len(log) : DryRunPush(log[i]) /\ log[i].returncode # 0

\* C3: every per-repository command comes to its end having run its loop body
\* for every key of repositories(), in their order, whatever exit status the
\* probes and the other invocations returned.
C3_EveryKeyProcessed == <>(pc = "done" /\ processed = LoopKeys)

\* C3, its case: a finished run over two keys in which an invocation for the
\* first key failed.
C3_Witness ==
    /\ pc = "done" /\ Len(processed) >= 2
    /\ \E e \in Range(log) : e.rep = processed[1] /\ e.returncode # 0

\* C4: in fetch, pull, push, status, branch and diff (messages not silenced by
\* quiet), when an invocation for a working copy returned a non-zero exit
\* status, a line for that repository key is printed.
C4_FailureIsReported ==
    (~quiet /\ command \in {"fetch", "pull", "push", "status", "branch", "diff"}) =>
        \A e \in Range(log) :
            (e.command # "rev-parse" /\ e.returncode # 0) =>
                \E line \in Range(out) : line.rep = e.rep

\* the text before and after the first separator of a line
BeforeFirst(line) == SubSeq(line, 1, Find(line, SEP, 1) - 1)
AfterFirst(line) == SubSeq(line, Find(line, SEP, 1) + Len(SEP), Len(line))

\* the entry a line with a separator stands for
EntryOf(line) == [dire |-> Strip(BeforeFirst(line)), rep |-> Strip(AfterFirst(line))]

RECURSIVE EntriesOf(_)
EntriesOf(lines) ==
    IF lines = <<>> THEN <<>>
    ELSE IF Contains(Head(lines), SEP) THEN <<EntryOf(Head(lines))>> \o EntriesOf(Tail(lines))
    ELSE EntriesOf(Tail(lines))

\* the catalogue file is as it was read at start-up
AsRead == pc # "start" /\ writes = 0 /\ readable

\* read_catalogue got through the file
Loaded == AsRead /\ pc # "ValueError" /\ stopline = 0

\* line j repeats the directory key of an earlier entry line
Repeats(lines, j) ==
    /\ Contains(lines[j], SEP)
    /\ \E i \in 1..(j - 1) :
        Contains(lines[i], SEP) /\ EntryOf(lines[i]).dire = EntryOf(lines[j]).dire

\* line j has more than one separator
Malformed(lines, j) == Contains(lines[j], SEP) /\ Contains(AfterFirst(lines[j]), SEP)

\* C5: the file save_catalogue has written reads back, with read_catalogue, as
\* the catalogue that was saved, entries and order.
C5_RoundTrip ==
    (pc = "done" /\ writes > 0) =>
        /\ LoadCatalogue(TRUE, gitcatrc, prefix).status = "ok"
        /\ LoadCatalogue(TRUE, gitcatrc, prefix).catalogue = catalogue

\* C6: when a directory key is repeated in the file, read_catalogue ends the
\* process at the first repeating line or before it, by error_message at that
\* line unless a line up to it has two separators, and no command runs.
C6_DuplicateIsFatal ==
    AsRead =>
        \A j \in 1..Len(FileLines(gitcatrc)) :
            (Repeats(FileLines(gitcatrc), j)
             /\ \A k \in 1..(j - 1) : ~Repeats(FileLines(gitcatrc), k)) =>
                /\ pc \in {"exit1", "ValueError"}
                /\ stopline \in 1..j
                /\ log = <<>>
                /\ (\A k \in 1..j : ~Malformed(FileLines(gitcatrc), k)) =>
                       (pc = "exit1" /\ stopline = j)

\* C6, its case: the second of two entry lines with the same key and another
\* remote stopped the process.
C6_Witness ==
    /\ AsRead /\ pc = "exit1" /\ stopline = 2
    /\ Repeats(FileLines(gitcatrc), 2)
    /\ EntryOf(FileLines(gitcatrc)[1]).rep # EntryOf(FileLines(gitcatrc)[2]).rep

\* C7: of a file without repeated keys, read_catalogue makes one entry of
\* every line with a separator, split at the first separator and trimmed, also
\* when more separators follow.
C7_SplitAtFirstSeparator ==
    (AsRead /\ \A j \in 1..Len(FileLines(gitcatrc)) : ~Repeats(FileLines(gitcatrc), j)) =>
        /\ Loaded
        /\ pc \in {"run", "done"} => catalogue = EntriesOf(FileLines(gitcatrc))

\* C8: no entry of the catalogue read comes from a line that begins with '#'.
C8_CommentsIgnored ==
    Loaded =>
        \A e \in Range(catalogue) :
            \E line \in Range(FileLines(gitcatrc)) :
                ~StartsWith(line, <<"#">>) /\ Contains(line, SEP) /\ EntryOf(line) = e

RECURSIVE NonBlank(_)
NonBlank(lines) ==
    IF lines = <<>> THEN <<>>
    ELSE IF Strip(Head(lines)) = <<>> THEN NonBlank(Tail(lines))
    ELSE <<Head(lines)>> \o NonBlank(Tail(lines))

PREFIX_TEXT == <<"p", "r", "e", "f", "i", "x">>

\* C9: the file save_catalogue writes is the header comment, then a line
\* 'prefix = <value>' exactly when the prefix of the run is not the default,
\* then one line per entry of the catalogue, in its order.
C9_SavedForm ==
    (pc = "done" /\ writes > 0) =>
        LET lines == NonBlank(FileLines(gitcatrc))
            settings == IF prefix # HOME THEN <<[dire |-> PREFIX_TEXT, rep |-> prefix]>>
                        ELSE <<>>
        IN  /\ lines # <<>>
            /\ Head(lines) = HEADER \o <<NL>>
            /\ gitcatrc[Len(gitcatrc)] = NL
            /\ EntriesOf(Tail(lines)) = settings \o catalogue

\* pattern p matches a part of key
MatchesSomewhere(p, key) ==
    LET anchored == p # <<>> /\ Head(p) = "^"
        items == IF anchored THEN Tail(p) ELSE p
    IN  \E i \in 1..(Len(key) + 1) :
            /\ anchored => i = 1
            /\ i + Len(items) - 1 <= Len(key)
            /\ \A j \in 1..Len(items) : ItemMatches(items[j], key[i + j - 1])

Position(seq, x) == CHOOSE i \in 1..Len(seq) : seq[i] = x

\* C10: repositories() is the catalogue keys when there is no filter, and with
\* a filter the keys the pattern matches somewhere, each once, in the order of
\* the catalogue.
C10_Selection ==
    LET keys == Keys(catalogue)
        selected == Repositories(catalogue, has_repositories, repositories)
    IN  /\ ~has_repositories => selected = keys
        /\ Range(selected) =
               {key \in Range(keys) : has_repositories => MatchesSomewhere(repositories, key)}
        /\ \A i, j \in 1..Len(selected) :
               i < j => Position(keys, selected[i]) < Position(keys, selected[j])

\* C10, its case: a finished run over the keys selected by a pattern that
\* matches the first key inside it and the second at its beginning.
C10_Witness ==
    /\ pc = "done" /\ has_repositories
    /\ repositories = <<"b">>
    /\ processed = <<BaseKeys[1], BaseKeys[2]>>

\* the lines printed for a repository key
LinesFor(key) == {line \in Range(out) : line.rep = key}

\* the one line rep_message prints for a key, which --quiet silences
QuietLine(key, message) ==
    IF quiet THEN {} ELSE {Printed("rep_message", key, message)}

\* C11: in the per-repository commands every git invocation for a key, the
\* clone of install apart, is issued while the working directory of the
\* process is the expanded path of that key.
C11_InvokedInRepository ==
    command \in LoopCommands =>
        \A e \in Range(log) : ~RealClone(e) => e.cwd = ExpandPath(prefix, e.rep)

\* C12: in pull, for a key whose expanded path is no directory, no git
\* invocation is issued and the line for the key, printed unless --quiet
\* silences it, is 'repository not installed'.
C12_PullNotInstalled ==
    command = "pull" =>
        \A key \in Range(processed) :
            (\E p \in Range(probed) : p.dire = ExpandPath(prefix, key) /\ ~p.isdir) =>
                /\ \A e \in Range(log) : e.rep # key
                /\ LinesFor(key) = QuietLine(key, NOT_INSTALLED_TEXT)

\* C12, its case: a finished pull that found the directory of its first key
\* missing and pulled its second key.
C12_Witness ==
    /\ command = "pull" /\ pc = "done" /\ ~quiet /\ Len(processed) = 2
    /\ \E p \in Range(probed) : p.dire = ExpandPath(prefix, processed[1]) /\ ~p.isdir
    /\ \E e \in Range(log) : e.rep = processed[2] /\ e.command = "pull"

\* C13: in push, for a key whose diff-index succeeded and listed nothing and
\* whose push --dry-run succeeded and reported [up to date], there is no
\* commit and no push without --dry-run, and the line for the key, printed
\* unless --quiet silences it, is 'up to date'.
C13_PushUpToDate ==
    command = "push" =>
        \A key \in Range(processed) :
            (/\ \E e \in Range(log) :
                    /\ e.rep = key /\ e.command = "diff-index"
                    /\ e.returncode = 0 /\ e.output = <<>>
             /\ \E e \in Range(log) :
                    /\ e.rep = key /\ DryRunPush(e)
                    /\ e.returncode = 0 /\ Contains(e.output, MARKER_TEXT)) =>
                /\ \A e \in Range(log) : e.rep = key => e.command # "commit" /\ ~RealPush(e)
                /\ LinesFor(key) = QuietLine(key, UP_TO_DATE_TEXT)

\* C13, its case: a finished push of a repository without changes whose dry
\* run reported [up to date].
C13_Witness ==
    /\ command = "push" /\ pc = "done" /\ ~quiet /\ ~dry_run /\ processed # <<>>
    /\ \E e \in Range(log) :
        /\ e.rep = processed[1] /\ e.command = "diff-index"
        /\ e.returncode = 0 /\ e.output = <<>>
    /\ \E e \in Range(log) :
        /\ e.rep = processed[1] /\ DryRunPush(e)
        /\ e.returncode = 0 /\ Contains(e.output, MARKER_TEXT)

\* the invocations issued for a key by a command of git
Issued(key, cmd) == {e \in Range(log) : e.rep = key /\ e.command = cmd}

\* the lines of a status output after its '##' header lines
RECURSIVE DetailLines(_)
DetailLines(lines) ==
    IF lines = <<>> THEN <<>>
    ELSE IF StartsWith(Head(lines), HEADER_MARK_TEXT) THEN DetailLines(Tail(lines))
    ELSE <<Head(lines)>> \o DetailLines(Tail(lines))

\* C14: in status, for a working copy whose remote update (unless --local),
\* status and diff --shortstat succeeded, the line for the key is 'up to date'
\* (unless --quiet silences it) exactly when the status output has no
\* ahead/behind clause and no line after its header and the diff output has no
\* files-changed clause; otherwise one line with the clauses and the detail
\* lines is printed, --quiet or not.
C14_StatusUpToDate ==
    command = "status" =>
        \A key \in Range(processed) :
        \A status \in Issued(key, "status"), diff \in Issued(key, "diff") :
            (status.returncode = 0 /\ diff.returncode = 0) =>
                LET changes == AheadBehind(status.output, 1)
                    changed == FilesChanged(diff.output, 1)
                    detail == Join(DetailLines(Split(status.output, <<NL>>)), <<NL>>)
                IN  IF changes = <<>> /\ changed = <<>> /\ detail = <<>>
                    THEN LinesFor(key) = QuietLine(key, UP_TO_DATE_TEXT)
                    ELSE \E line \in LinesFor(key) :
                            /\ LinesFor(key) = {line}
                            /\ line.via = "rep_message"
                            /\ line.message # UP_TO_DATE_TEXT
                            /\ changes # <<>> => Contains(line.message, changes)
                            /\ changed # <<>> => Contains(line.message, changed)
                            /\ detail # <<>> => EndsWith(line.message, <<NL>> \o detail)

\* C14, its case: a finished status that found its first key up to date and
\* reported changes for its second key.
C14_Witness ==
    /\ command = "status" /\ pc = "done" /\ ~quiet /\ Len(processed) = 2
    /\ LinesFor(processed[1]) = {Printed("rep_message", processed[1], UP_TO_DATE_TEXT)}
    /\ \E status \in Issued(processed[1], "status"), diff \in Issued(processed[1], "diff") :
        status.returncode = 0 /\ diff.returncode = 0
    /\ \E status \in Issued(processed[2], "status"), diff \in Issued(processed[2], "diff") :
        /\ status.returncode = 0 /\ diff.returncode = 0
        /\ FilesChanged(diff.output, 1) # <<>>
    /\ \E line \in LinesFor(processed[2]) : line.message # UP_TO_DATE_TEXT

RemoteUpdate(e) == e.command = "remote" /\ "update" \in e.options

\* C15: in status without --local, a status or diff invocation for a key
\* comes after a remote update for that key that succeeded; with --local no
\* remote update is issued.
C15_UpdateBeforeStatus ==
    command = "status" =>
        /\ git_local => \A e \in Range(log) : ~RemoteUpdate(e)
        /\ ~git_local =>
            \A i \in 1..Len(log) :
                log[i].command \in {"status", "diff"} =>
                    \E j \in 1..(i - 1) :
                        /\ RemoteUpdate(log[j])
                        /\ log[j].rep = log[i].rep
                        /\ log[j].returncode = 0

\* C15, its case: a finished status without --local whose remote update
\* failed for the first key and was followed by status and diff for the second.
C15_Witness ==
    /\ command = "status" /\ pc = "done" /\ ~git_local /\ Len(processed) = 2
    /\ \E e \in Issued(processed[1], "remote") : RemoteUpdate(e) /\ e.returncode # 0
    /\ Issued(processed[1], "status") = {}
    /\ \E e \in Issued(processed[2], "remote") : RemoteUpdate(e) /\ e.returncode = 0
    /\ Issued(processed[2], "status") # {} /\ Issued(processed[2], "diff") # {}

\* C16: in push (without --quiet), a push without --dry-run that succeeded is
\* reported for its key by rep_message as 'pushed' exactly when its output
\* begins with 'To ' and ends with 'Done', and by message otherwise.
C16_PushedByShape ==
    (command = "push" /\ ~quiet) =>
        \A e \in Range(log) :
            (RealPush(e) /\ e.returncode = 0) =>
                LET pushed == \E line \in LinesFor(e.rep) :
                                /\ line.via = "rep_message"
                                /\ StartsWith(line.message, PUSHED_TEXT)
                    general == \E line \in Range(out) :
                                /\ line.via = "message"
                                /\ line.message = e.output
                IN  IF StartsWith(e.output, TO_TEXT) /\ EndsWith(e.output, DONE_TEXT)
                    THEN pushed
                    ELSE general /\ ~pushed

\* C17: in diff, every invocation for a working copy after the probe is
\* `git diff` with HEAD among its arguments; when it succeeds the line for the
\* key is 'up to date' for an empty output (unless --quiet silences it) and
\* the output itself otherwise.
C17_DiffAgainstHead ==
    command = "diff" =>
        \A e \in Range(log) :
            e.command # "rev-parse" =>
                /\ e.command = "diff"
                /\ "HEAD" \in e.options
                /\ e.returncode = 0 =>
                    LinesFor(e.rep) = IF e.output = <<>>
                                      THEN QuietLine(e.rep, UP_TO_DATE_TEXT)
                                      ELSE {Printed("rep_message", e.rep, e.output)}

\* the catalogue without the entry of a key
Without(cat, key) == SelectSeq(cat, LAMBDA e : e.dire # key)

\* C18: remove, for a directory whose key is in the catalogue, deletes that
\* entry and saves: the catalogue after it is the one before it without the
\* key, the other entries as they were and in their order, and the file reads
\* back as that catalogue.
C18_RemoveDeletesEntry ==
    [][(/\ pc = "run" /\ command = "remove"
        /\ \E dire \in AddDirs : \E e \in Range(catalogue) : e.dire = ShortPath(prefix, dire))
       => \E dire \in AddDirs :
            /\ \E e \in Range(catalogue) : e.dire = ShortPath(prefix, dire)
            /\ catalogue' = Without(catalogue, ShortPath(prefix, dire))
            /\ LoadCatalogue(TRUE, gitcatrc', prefix).status = "ok"
            /\ LoadCatalogue(TRUE, gitcatrc', prefix).catalogue = catalogue']_vars

\* C19: add, when the key of the root that git reported is in the catalogue,
\* ends with error_message (exit status 1), leaves the catalogue and the file
\* as they were and issues no commit.
C19_AddOfCataloguedKey ==
    [][(/\ pc = "run" /\ command = "add"
        /\ \E root \in Range(log'), url \in Range(log') :
            /\ root.command = "root" /\ root.returncode = 0
            /\ url.command = "remote" /\ url.returncode = 0
            /\ \E e \in Range(catalogue) :
                e.dire = ShortPath(prefix, Strip(root.output)))
       => /\ pc' = "exit1"
          /\ catalogue' = catalogue
          /\ gitcatrc' = gitcatrc
          /\ writes' = writes
          /\ \A e \in Range(log') : e.command # "commit"]_vars

\* C19, its case: an add of a repository whose key the catalogue read from the
\* file already holds, ended by error_message.
C19_Witness ==
    /\ command = "add" /\ pc = "exit1" /\ writes = 0
    /\ \E root \in Range(log), url \in Range(log) :
        /\ root.command = "root" /\ root.returncode = 0
        /\ url.command = "remote" /\ url.returncode = 0
        /\ \E e \in Range(catalogue) : e.dire = ShortPath(prefix, Strip(root.output))
        /\ Printed("error_message", <<>>,
                   THE_GIT_TEXT \o ShortPath(prefix, Strip(root.output)) \o IN_CATALOGUE_TEXT)
               \in Range(out)

\* the commit at place i of the log is the one commit_repository issues: it
\* follows, for the same key, a diff-index that succeeded and listed changes,
\* and its message is 'git cat: updating ' and that list
FromCommitRepository(i) ==
    /\ i > 1
    /\ log[i - 1].command = "diff-index"
    /\ log[i - 1].rep = log[i].rep
    /\ log[i - 1].returncode = 0
    /\ log[i - 1].output # <<>>
    /\ log[i].args = UPDATING_TEXT \o log[i - 1].output

\* the commit at place i of the log is add's commit of the catalogue file: add
\* saved the catalogue, rev-parse found the directory of the catalogue file to
\* be a working copy, and the message is 'Adding <key> to gitcatrc'
CatalogueFileCommit(i) ==
    /\ command = "add"
    /\ writes = 1
    /\ i > 1
    /\ log[i - 1].command = "rev-parse"
    /\ log[i - 1].cwd = Dirname(GITCATRC)
    /\ IsGitRepositoryResult(TRUE, log[i - 1])
    /\ log[i].cwd = Dirname(GITCATRC)
    /\ log[i].args = ADDING_TEXT \o log[i].rep \o TO_GITCATRC_TEXT
    /\ \E e \in Range(catalogue) : e.dire = log[i].rep

\* C20 as stated: every commit invocation, in any command, is the one
\* commit_repository issues after its diff-index listed changed files, with the
\* message that enumerates them.
C20_OnlyCommitRepository ==
    \A i \in 1..Len(log) : log[i].command = "commit" => FromCommitRepository(i)

\* C20, amended: every commit invocation is either the one commit_repository
\* issues after its diff-index listed changed files, with the message that
\* enumerates them, or, in add, the commit of the catalogue file after the
\* catalogue was saved; in commit and push it is always the former.
C20_CommitPaths ==
    \A i \in 1..Len(log) :
        log[i].command = "commit" =>
            /\ FromCommitRepository(i) \/ CatalogueFileCommit(i)
            /\ command \in {"commit", "push"} => FromCommitRepository(i)

\* C20, its case: a push that came to commit through commit_repository, the
\* diff-index before it having listed changed files.
C20_Witness ==
    /\ command = "push"
    /\ \E i \in 1..Len(log) :
        /\ log[i].command = "commit"
        /\ FromCommitRepository(i)
        /\ "--porcelain" \notin log[i].options

\* the lines of a text, "\n" and "\r" both ending a line
ClaimLines(text) == Split(ReplaceChar(text, CR, <<NL>>), <<NL>>)

\* each line trimmed, the lines blank after trimming dropped, the others
\* prefixed by two spaces
RECURSIVE TrimmedNonBlank(_)
TrimmedNonBlank(lines) ==
    IF lines = <<>> THEN <<>>
    ELSE (IF Strip(Head(lines)) # <<>> THEN <<<<" ", " ">> \o Strip(Head(lines))>> ELSE <<>>)
         \o TrimmedNonBlank(Tail(lines))

\* C21: the output of a Git object is the lines of stdout followed by the
\* lines of stderr, each trimmed, those blank after trimming removed and the
\* others prefixed by two spaces; no line of it is empty once the two spaces
\* are removed.
C21_NormalizedOutput ==
    proc.state = "done" =>
        /\ proc.output = Join(TrimmedNonBlank(ClaimLines(proc.stdout)
                                              \o ClaimLines(proc.stderr)), <<NL>>)
        /\ proc.output # <<>> =>
              \A i \in 1..Len(Split(proc.output, <<NL>>)) :
                  Len(Split(proc.output, <<NL>>)[i]) > 2

\* the catalogue file that holds the whole of a catalogue: the header, the
\* settings and one line for every key, in the catalogue's order
WholeFile(cat, width, sprefix) ==
    HEADER \o <<NL, NL>> \o SaveSettings(sprefix)
    \o ListCatalogue(cat, Keys(cat), width) \o <<NL>>

\* C22: a step of install, fetch, pull, push, commit, status, branch, diff or
\* ls leaves the catalogue and the catalogue file as they were; a step that
\* writes the file belongs to add or remove, and the text it leaves is the
\* header, the settings and one line for every key of the catalogue as it then
\* is.
C22_CatalogueFrame ==
    [][/\ (pc = "run" /\ command \in {"install", "fetch", "pull", "push", "commit", "status",
                                      "branch", "diff", "ls"})
            => catalogue' = catalogue /\ gitcatrc' = gitcatrc /\ writes' = writes
       /\ (gitcatrc' # gitcatrc \/ writes' # writes)
            => /\ command \in {"add", "remove"}
               /\ writes' = writes + 1
               /\ gitcatrc' = WholeFile(catalogue', max', settings_prefix')
       /\ (pc = "run" /\ catalogue' # catalogue)
            => command \in {"add", "remove"} /\ writes' = writes + 1]_vars

\* C22, its case: an add wrote the file for a catalogue that held an entry
\* before, and the file lists both.
C22_Witness ==
    /\ command = "add"
    /\ writes = 1
    /\ Len(catalogue) >= 2
    /\ gitcatrc = WholeFile(catalogue, max, settings_prefix)

\* the invocations of install that change a directory or its repository
StateChanging(e) ==
    e.command \in {"init", "remote add origin", "fetch origin",
                   "checkout -b master --track origin/master", "clone"}

\* C23: under dry-run, install issues no invocation that changes state: no
\* clone and, for a directory that exists and is not a working copy, no init,
\* remote add, fetch or checkout.
C23_InstallDryRun ==
    (command = "install" /\ dry_run) => \A e \in Range(log) : ~StateChanging(e)

====
